---- MODULE Spec2Model ----
(***************************************************************************)
(* A model of the seismic label-validation core: the DataLoader of         *)
(* src/data/data_loader.py (label table, P-arrival lookup, trace loading,  *)
(* label validation, file enumeration), the signal metrics of              *)
(* src/ui/plot_widget.py, the batch run of src/ui/validation_window.py,    *)
(* and load_file, apply_filter and the saved filter settings of            *)
(* src/ui/main_window.py with the filter of src/filters/butterworth.py.    *)
(* The last sections add show_validation_window, pad_or_trim of            *)
(* src/ml/predictor.py and the LabelValidator of data_loader.py.           *)
(*                                                                         *)
(* Representation choices                                                  *)
(*  - Python None / an absent value is the empty sequence <<>>, a present  *)
(*    value v is <<v>>.                                                    *)
(*  - A string is a sequence of tokens; a token is one character, or one   *)
(*    of the multi-character pieces ".mseed" and "_aug" that the code      *)
(*    searches for (no other token contains '.' or '_').                   *)
(*  - Absolute times are integers counted in ticks, TicksPerSecond ticks   *)
(*    to the second (obspy's UTCDateTime holds an integer count of         *)
(*    nanoseconds).  A quotient a / b of the code is kept as the exact     *)
(*    fraction [num |-> a, den |-> b]; comparisons cross-multiply.         *)
(*  - A call's outcome is [exc, val]: exc = "None" and the returned value, *)
(*    or the name of the exception that left the call.                     *)
(***************************************************************************)
EXTENDS Integers, Sequences, FiniteSets, TLC

VARIABLES csv_files,    \* the file system: what is stored at each CSV path
          mseed_file,   \* the file system: what obspy decodes from the trace file
                        \* (from each file name, where several files are read)
          files,        \* the file system: names of the files under data_dir
                        \* (under each directory, where the directory can change)
          csv_path,     \* DataLoader.csv_path : optional path
          data_dir,     \* DataLoader.data_dir
          df,           \* DataLoader.df : the label table
          current_file_id,  \* the caller's current file identifier (MainWindow's)
          current_data,     \* the caller's trace record (optional)
          ret,          \* the last call: operation, arguments, outcome
          plot_widget,        \* PlotWidget: the plot request and the metric labels
          validation_window,  \* ValidationWindow: the batch run
          main_window         \* MainWindow: status, combo box, filter controls, saved settings

uiVars == <<plot_widget, validation_window, main_window>>

vars == <<csv_files, mseed_file, files, csv_path, data_dir, df,
         current_file_id, current_data, ret, uiVars>>

----------------------------------------------------------------------------
(* Bounds of the model *)

MaxRows == 2          \* rows of a label CSV
MaxLabelRows == 1     \* rows of the label CSV in the validate_labels runs
MaxSamples == 2       \* samples of a decoded trace
MaxTraces == 2        \* traces of a decoded stream
MaxIdLen == 2         \* characters of a file_id given as a string
MaxNameLen == 3       \* tokens of a file name
MaxFiles == 2         \* files under the data directory
TicksPerSecond == 2   \* resolution of the time axis

None == <<>>
Some(v) == <<v>>

DigitChars == <<"0", "1", "2", "3", "4", "5", "6", "7", "8", "9">>
Digits == {DigitChars[i] : i \in 1..10}
IdChars == {"0", "1", "x"}
NameTokens == {"0", "1", "_aug", ".mseed"}

SeqsUpTo(S, n) == UNION {[1..k -> S] : k \in 0..n}

----------------------------------------------------------------------------
(* Python string and integer conversions *)

DigitVal(c) == (CHOOSE i \in 1..10 : DigitChars[i] = c) - 1

RECURSIVE PyStr(_)
\* str(n) for a non-negative integer n
PyStr(n) == IF n < 10 THEN <<DigitChars[n + 1]>>
            ELSE Append(PyStr(n \div 10), DigitChars[(n % 10) + 1])

RECURSIVE Lstrip0(_)
\* s.lstrip('0')
Lstrip0(s) == IF s # <<>> /\ Head(s) = "0" THEN Lstrip0(Tail(s)) ELSE s

RECURSIVE DecimalValue(_)
DecimalValue(s) == IF s = <<>> THEN 0
                   ELSE 10 * DecimalValue(SubSeq(s, 1, Len(s) - 1)) + DigitVal(s[Len(s)])

\* int(s): ValueError (None here) for the empty string and for any
\* non-digit character
PyInt(s) == IF s # <<>> /\ \A i \in 1..Len(s) : s[i] \in Digits
            THEN Some(DecimalValue(s)) ELSE None

\* A file_id is an int or a str
IntId(n) == [kind |-> "int", n |-> n, s |-> <<>>]
StrId(s) == [kind |-> "str", n |-> 0, s |-> s]
\* str(file_id)
StrOfId(fid) == IF fid.kind = "int" THEN PyStr(fid.n) ELSE fid.s

----------------------------------------------------------------------------
(* The label table: pandas DataFrame with the columns of the CSV *)

TableIds == {0, 1, 10}
LabelTimes == {4, 5}          \* epoch times found in the lec_p column, in ticks
CsvPaths == {"a.csv", "b.csv"}
DataDirs == {"cwd", "data"}

\* A raw lec_p cell: numeric text, or text pd.to_numeric cannot convert
RawCells == {[numeric |-> TRUE, v |-> t] : t \in LabelTimes}
              \cup {[numeric |-> FALSE, v |-> 0]}

\* What pd.read_csv finds at an existing path: the read fails, or a frame
\* with some of the two columns
CsvContents ==
    {[readable |-> FALSE, cols |-> {}, rows |-> <<>>]}
    \cup {[readable |-> TRUE, cols |-> {"archivo", "lec_p"}, rows |-> r] :
             r \in SeqsUpTo([archivo : TableIds, lec_p : RawCells], MaxRows)}
    \cup {[readable |-> TRUE, cols |-> {"lec_p"}, rows |-> r] :
             r \in SeqsUpTo([lec_p : RawCells], MaxRows)}
    \cup {[readable |-> TRUE, cols |-> {"archivo"}, rows |-> r] :
             r \in SeqsUpTo([archivo : TableIds], MaxRows)}

\* The file system as load_csv sees it: nothing at the path, or a content
CsvOnDisk == {None} \cup {Some(c) : c \in CsvContents}

\* pd.DataFrame(columns=['archivo', 'lec_p'])
EmptyFrame == [cols |-> {"archivo", "lec_p"}, rows |-> <<>>]

\* pd.to_numeric(cell, errors='coerce'): the number, or NaN
NaN == [nan |-> TRUE, v |-> 0]
ToNumeric(cell) == IF cell.numeric THEN [nan |-> FALSE, v |-> cell.v] ELSE NaN

LoadCsvKeeping(self_csv_path, arg, disk) ==
    LET path == IF arg # None THEN arg ELSE self_csv_path IN
    IF path # None /\ disk # None
    THEN LET c == disk[1] IN
         IF c.readable /\ "lec_p" \in c.cols
         THEN [csv_path |-> path,
               df |-> [cols |-> c.cols,
                       rows |-> [i \in 1..Len(c.rows) |->
                                   [col \in c.cols |->
                                      IF col = "lec_p" THEN ToNumeric(c.rows[i].lec_p)
                                      ELSE c.rows[i][col]]]],
               val |-> <<TRUE, "CSV loaded successfully">>]
         ELSE [csv_path |-> path, df |-> [cols |-> c.cols, rows |-> c.rows],
               val |-> <<FALSE, "Error reading CSV file">>]
    ELSE [csv_path |-> path, df |-> EmptyFrame,
          val |-> <<FALSE, "No CSV file specified or file not found">>]

\* load_csv: the new (csv_path, df) and the returned (success, message)
LoadCsv(self_csv_path, arg, disk) ==
    LET path == IF arg # None THEN arg ELSE self_csv_path IN
    IF path # None /\ disk # None
    THEN LET c == disk[1] IN
         IF c.readable /\ "lec_p" \in c.cols
         THEN [csv_path |-> path,
               df |-> [cols |-> c.cols,
                       rows |-> [i \in 1..Len(c.rows) |->
                                   [col \in c.cols |->
                                      IF col = "lec_p" THEN ToNumeric(c.rows[i].lec_p)
                                      ELSE c.rows[i][col]]]],
               val |-> <<TRUE, "CSV loaded successfully">>]
         ELSE [csv_path |-> path, df |-> EmptyFrame,
               val |-> <<FALSE, "Error reading CSV file">>]
    ELSE [csv_path |-> path, df |-> EmptyFrame,
          val |-> <<FALSE, "No CSV file specified or file not found">>]

----------------------------------------------------------------------------
(* get_p_arrival *)

\* UTCDateTime(float(x)): the absolute time of an epoch value
UTCDateTime(x) == [timestamp |-> x]

\* Indices of the rows selected by df['archivo'] == file_id
MatchingRows(frame, id) ==
    {i \in 1..Len(frame.rows) : frame.rows[i].archivo = id}

GetPArrival(frame, id) ==
    LET parsed == PyInt(Lstrip0(StrOfId(id))) IN
    IF parsed = None THEN [exc |-> "None", val |-> None]
    ELSE IF "archivo" \notin frame.cols THEN [exc |-> "KeyError", val |-> None]
    ELSE IF MatchingRows(frame, parsed[1]) = {} THEN [exc |-> "None", val |-> None]
    ELSE IF "lec_p" \notin frame.cols THEN [exc |-> "KeyError", val |-> None]
    ELSE LET first == CHOOSE i \in MatchingRows(frame, parsed[1]) :
                         \A j \in MatchingRows(frame, parsed[1]) : i <= j
             p_time == frame.rows[first].lec_p
         IN IF ~p_time.nan THEN [exc |-> "None", val |-> Some(UTCDateTime(p_time.v))]
            ELSE [exc |-> "None", val |-> None]

----------------------------------------------------------------------------
(* load_mseed *)

Samples == {0, 1}
SamplingRates == {-1, 0, 1, 2}
StartTimes == {2, 5}

\* A decoded trace: tr.data and the tr.stats fields the loader reads
Traces == [data : SeqsUpTo(Samples, MaxSamples),
           sampling_rate : SamplingRates, starttime : StartTimes]

\* The rest of a stream is never read by the loader
OtherTrace == [data |-> <<1>>, sampling_rate |-> 1, starttime |-> 2]

\* obspy.read(file_name): it raises, or returns a stream of traces
Streams == {[raises |-> TRUE, traces |-> <<>>]}
           \cup {[raises |-> FALSE, traces |-> <<>>]}
           \cup {[raises |-> FALSE, traces |-> <<t>> \o [i \in 1..k |-> OtherTrace]] :
                    t \in Traces, k \in 0..(MaxTraces - 1)}

RECURSIVE SumSeq(_)
SumSeq(s) == IF s = <<>> THEN 0 ELSE Head(s) + SumSeq(Tail(s))

\* np.std(data) == 0.  With n samples of sum S the deviations x - mean are
\* (n*x - S)/n, and std^2 = (sum of (n*x - S)^2) / n^3
StdSquared(data) ==
    LET n == Len(data)
        S == SumSeq(data)
    IN [num |-> SumSeq([i \in 1..n |-> (n * data[i] - S) * (n * data[i] - S)]),
        den |-> n * n * n]

StdIsZeroNever(data) == FALSE

\* std_val == 0
StdIsZero(data) == StdSquared(data).num = 0

\* data_normalized: each element is (data[i] - mean), kept as the fraction
\* (n*data[i] - S)/n, divided by std_val when by_std holds
Normalize(data) ==
    LET n == Len(data)
        S == SumSeq(data)
    IN [i \in 1..n |-> [num |-> n * data[i] - S, den |-> n,
                        by_std |-> ~StdIsZero(data)]]

InvalidSamplingRateNegative(sampling_rate) == sampling_rate < 0

\* sampling_rate <= 0
InvalidSamplingRate(sampling_rate) == sampling_rate <= 0

LoadMseed(st) ==
    IF st.raises
    THEN [exc |-> "IOError", cause |-> "read", val |-> None]
    ELSE IF Len(st.traces) = 0
    THEN [exc |-> "IOError", cause |-> "ValueError: No traces found in MSEED file",
          val |-> None]
    ELSE LET tr == st.traces[1] IN
         IF Len(tr.data) = 0
         THEN [exc |-> "IOError", cause |-> "ValueError: Empty trace data", val |-> None]
         ELSE IF InvalidSamplingRate(tr.sampling_rate)
         THEN [exc |-> "IOError", cause |-> "ValueError: Invalid sampling rate",
               val |-> None]
         ELSE [exc |-> "None", cause |-> "None",
               val |-> Some([data |-> tr.data,
                             data_normalized |-> Normalize(tr.data),
                             std_sq |-> StdSquared(tr.data),
                             times |-> [i \in 1..Len(tr.data) |->
                                          [num |-> i - 1, den |-> tr.sampling_rate]],
                             sampling_rate |-> tr.sampling_rate,
                             start_time |-> UTCDateTime(tr.starttime)])]

\* The records load_mseed can return
SignalRecords == {LoadMseed(st).val[1] : st \in {x \in Streams : LoadMseed(x).exc = "None"}}

----------------------------------------------------------------------------------------------------------------------------------------
(* validate_labels *)

\* a - b on UTCDateTime: the difference in ticks
TimeDiff(a, b) == a.timestamp - b.timestamp

\* duration = len(signal_data['data']) / signal_data['sampling_rate'], seconds
Duration(signal_data) ==
    [num |-> Len(signal_data.data), den |-> signal_data.sampling_rate]

\* relative_p_time > duration, for duration = num/den seconds with den > 0
AfterEnd(rel, duration) == rel * duration.den > duration.num * TicksPerSecond

OutsideSignalStrict(rel, duration) ==
    rel <= 0 \/ rel * duration.den >= duration.num * TicksPerSecond

\* relative_p_time < 0 or relative_p_time > duration
OutsideSignal(rel, duration) == rel < 0 \/ AfterEnd(rel, duration)

NoArrivalResultInvalid(id, duration) ==
    [is_valid |-> FALSE,
     error |-> Some([text |-> "Missing P arrival time", rel |-> 0, duration |-> duration]),
     details |-> [file_id |-> id, duration |-> duration, p_arrival |-> None,
                  relative_p_time |-> None, has_p_arrival |-> FALSE]]

\* the result returned when get_p_arrival gave None
NoArrivalResult(id, duration) ==
    [is_valid |-> TRUE,
     error |-> Some([text |-> "No P arrival time available", rel |-> 0,
                     duration |-> duration]),
     details |-> [file_id |-> id, duration |-> duration, p_arrival |-> None,
                  relative_p_time |-> None, has_p_arrival |-> FALSE]]

ArrivalDetailsNoRelative(id, duration, p_arrival, rel) ==
    [file_id |-> id, duration |-> duration, p_arrival |-> Some(p_arrival.timestamp),
     relative_p_time |-> None, has_p_arrival |-> TRUE]

\* details once a P arrival time is known
ArrivalDetails(id, duration, p_arrival, rel) ==
    [file_id |-> id, duration |-> duration, p_arrival |-> Some(p_arrival.timestamp),
     relative_p_time |-> Some(rel), has_p_arrival |-> TRUE]

WindowErrorAlways(rel, duration) ==
    Some([text |-> "P arrival time outside signal duration",
          rel |-> rel, duration |-> duration])

\* error: None, or the message carrying the relative time and the duration
WindowError(rel, duration) ==
    IF OutsideSignal(rel, duration)
    THEN Some([text |-> "P arrival time outside signal duration",
               rel |-> rel, duration |-> duration])
    ELSE None

ValidateLabels(frame, id, signal_data) ==
    LET duration == Duration(signal_data)
        lookup == GetPArrival(frame, id)
    IN
    IF lookup.exc # "None" THEN [exc |-> lookup.exc, val |-> None]
    ELSE IF lookup.val = None
    THEN [exc |-> "None", val |-> Some(NoArrivalResult(id, duration))]
    ELSE LET p_arrival == lookup.val[1]
             relative_p_time == TimeDiff(p_arrival, signal_data.start_time)
         IN [exc |-> "None",
             val |-> Some([is_valid |-> ~OutsideSignal(relative_p_time, duration),
                           error |-> WindowError(relative_p_time, duration),
                           details |-> ArrivalDetails(id, duration, p_arrival,
                                                      relative_p_time)])]

----------------
(* get_file_list *)

\* file.endswith('.mseed')
EndsWithMseed(file) == file # <<>> /\ file[Len(file)] = ".mseed"

RECURSIVE RemoveMseed(_)
\* file.replace('.mseed', ''): every occurrence is removed
RemoveMseed(file) ==
    IF file = <<>> THEN <<>>
    ELSE IF Head(file) = ".mseed" THEN RemoveMseed(Tail(file))
    ELSE <<Head(file)>> \o RemoveMseed(Tail(file))

RECURSIVE BeforeAug(_)
\* base_name.split('_aug')[0]: the part before the first '_aug'
BeforeAug(name) ==
    IF name = <<>> \/ Head(name) = "_aug" THEN <<>>
    ELSE <<Head(name)>> \o BeforeAug(Tail(name))

\* int(base_name.lstrip('0')) of lines 250-258: the ID, or None for ValueError
FileIdOfName(file) == PyInt(Lstrip0(BeforeAug(RemoveMseed(file))))

InList(x, list) == \E i \in 1..Len(list) : list[i] = x

RECURSIVE ScanFiles(_, _)
\* the loop over the walked files, appending the IDs not yet in mseed_files
ScanFiles(walk, mseed_files) ==
    IF walk = <<>> THEN mseed_files
    ELSE LET file == Head(walk)
             id == FileIdOfName(file)
         IN IF EndsWithMseed(file) /\ id # None /\ ~InList(id[1], mseed_files)
            THEN ScanFiles(Tail(walk), Append(mseed_files, id[1]))
            ELSE ScanFiles(Tail(walk), mseed_files)

RECURSIVE Insert(_, _)
Insert(x, sorted) ==
    IF sorted = <<>> THEN <<x>>
    ELSE IF x <= Head(sorted) THEN <<x>> \o sorted
    ELSE <<Head(sorted)>> \o Insert(x, Tail(sorted))

RECURSIVE Sorted(_)
\* sorted(list)
Sorted(list) == IF list = <<>> THEN <<>> ELSE Insert(Head(list), Sorted(Tail(list)))

GetFileList(walk) == Sorted(ScanFiles(walk, <<>>))

\* File names: every name with the extension, and the one-token names
\* without it (a file without the extension is skipped whatever its name).
\* Walks: what os.walk may find under a data directory, in walk order.
FileNames == {name \in SeqsUpTo(NameTokens, MaxNameLen) :
                 EndsWithMseed(name) \/ Len(name) = 1}
Walks == SeqsUpTo(FileNames, MaxFiles)

----------------------------------------------------------------------------------------------------------------------------------------
(* The DataLoader as a state machine *)

IntIds == {0, 1, 2, 10}
FileIds == {IntId(n) : n \in IntIds} \cup {StrId(c) : c \in SeqsUpTo(IdChars, MaxIdLen)}
OptCsvPaths == {None} \cup {Some(p) : p \in CsvPaths}

\* The second CSV file is missing, unreadable, or a one-row table
OtherCsv == {None,
             Some([readable |-> FALSE, cols |-> {}, rows |-> <<>>]),
             Some([readable |-> TRUE, cols |-> {"archivo", "lec_p"},
                   rows |-> <<[archivo |-> 1, lec_p |-> [numeric |-> TRUE, v |-> 4]]>>])}

CsvFileSystems == {[p \in CsvPaths |-> IF p = "a.csv" THEN a ELSE b] :
                      a \in CsvOnDisk, b \in OtherCsv}

\* os.path.exists(path) and the content read there
OnDisk(fs, path) == IF path = None THEN None ELSE fs[path[1]]

NoStream == [raises |-> TRUE, traces |-> <<>>]

\* the windows and the plot widget before anything is asked of them
NoPlot == [op |-> "__init__"]
NoBatch == [op |-> "__init__"]
NoMain == [op |-> "__init__"]
UiIdle ==
    /\ plot_widget = NoPlot
    /\ validation_window = NoBatch
    /\ main_window = NoMain

NoCall == [op |-> "__init__", exc |-> "None", val |-> None]

\* DataLoader(csv_path): data_dir defaults to the working directory, and the
\* constructor ends with load_csv()
Constructed(arg) ==
    LET r == LoadCsv(None, arg, OnDisk(csv_files, arg)) IN
    /\ csv_path = r.csv_path
    /\ df = r.df
    /\ data_dir = "cwd"
    /\ ret = NoCall

Init ==
    /\ UiIdle
    /\ csv_files \in CsvFileSystems
    /\ mseed_file = NoStream
    /\ files = <<>>
    /\ current_file_id = IntId(0)
    /\ current_data = None
    /\ \E arg \in OptCsvPaths : Constructed(arg)

LoadCsvStep ==
    \E arg \in OptCsvPaths :
        LET path == IF arg # None THEN arg ELSE csv_path
            r == LoadCsv(csv_path, arg, OnDisk(csv_files, path))
        IN
        /\ csv_path' = r.csv_path
        /\ df' = r.df
        /\ ret' = [op |-> "load_csv", arg |-> arg, exc |-> "None", val |-> r.val]
        /\ UNCHANGED <<csv_files, mseed_file, files, data_dir, current_file_id, current_data>>
        /\ UNCHANGED uiVars

GetPArrivalStep ==
    \E id \in FileIds :
        LET r == GetPArrival(df, id) IN
        /\ ret' = [op |-> "get_p_arrival", file_id |-> id, exc |-> r.exc, val |-> r.val]
        /\ UNCHANGED <<csv_files, mseed_file, files, csv_path, data_dir, df,
                       current_file_id, current_data>>
        /\ UNCHANGED uiVars

Next == LoadCsvStep \/ GetPArrivalStep

Spec == Init /\ [][Next]_vars

----------------------------------------------------------------------------
(* load_mseed applied to the decoded content of a trace file *)

InitLoad ==
    /\ UiIdle
    /\ csv_files = [p \in CsvPaths |-> None]
    /\ mseed_file \in Streams
    /\ files = <<>>
    /\ current_file_id = IntId(0)
    /\ current_data = None
    /\ Constructed(None)

\* current_data = load_mseed(file_path), as the callers do
LoadMseedStep ==
    LET r == LoadMseed(mseed_file) IN
    /\ ret' = [op |-> "load_mseed", exc |-> r.exc, cause |-> r.cause, val |-> r.val]
    /\ current_data' = IF r.exc = "None" THEN r.val ELSE current_data
    /\ UNCHANGED <<csv_files, mseed_file, files, csv_path, data_dir, df, current_file_id>>
    /\ UNCHANGED uiVars

NextLoad == LoadMseedStep

SpecLoad == InitLoad /\ [][NextLoad]_vars

----------------------------------------------------------------------------
(* validate_labels applied to a file identifier, a loaded trace and the
   label table of a constructed DataLoader *)

\* the loader is constructed on a.csv: a missing or unusable file leaves the
\* empty table, as constructing without a path does
InitValidate ==
    /\ UiIdle
    /\ csv_files \in {fs \in CsvFileSystems :
                        /\ fs["b.csv"] = None
                        /\ fs["a.csv"] # None => Len(fs["a.csv"][1].rows) <= MaxLabelRows}
    /\ mseed_file = NoStream
    /\ files = <<>>
    /\ current_file_id \in FileIds
    /\ current_data \in {Some(r) : r \in SignalRecords}
    /\ Constructed(Some("a.csv"))

\* a validate_labels that drops the rows it looked up from the table
ValidateLabelsStepConsuming ==
    /\ current_data # None
    /\ LET r == ValidateLabels(df, current_file_id, current_data[1])
           id == PyInt(Lstrip0(StrOfId(current_file_id)))
       IN /\ ret' = [op |-> "validate_labels", exc |-> r.exc, val |-> r.val]
          /\ df' = IF id = None \/ "archivo" \notin df.cols THEN df
                   ELSE [df EXCEPT !.rows = SelectSeq(df.rows,
                                                LAMBDA row : row.archivo # id[1])]
    /\ UNCHANGED <<csv_files, mseed_file, files, csv_path, data_dir,
                   current_file_id, current_data>>
    /\ UNCHANGED uiVars

ValidateLabelsStep ==
    /\ current_data # None
    /\ LET r == ValidateLabels(df, current_file_id, current_data[1]) IN
       ret' = [op |-> "validate_labels", exc |-> r.exc, val |-> r.val]
    /\ UNCHANGED <<csv_files, mseed_file, files, csv_path, data_dir, df,
                   current_file_id, current_data>>
    /\ UNCHANGED uiVars

NextValidate == ValidateLabelsStep

SpecValidate == InitValidate /\ [][NextValidate]_vars

----------------------------------------------------------------------------
(* get_file_list applied to the files under the data directory *)

\* DataLoader(None, data_dir) over a directory of files
InitFiles ==
    /\ UiIdle
    /\ csv_files = [p \in CsvPaths |-> None]
    /\ mseed_file = NoStream
    /\ files \in Walks
    /\ current_file_id = IntId(0)
    /\ current_data = None
    /\ Constructed(None)

GetFileListStep ==
    /\ ret' = [op |-> "get_file_list", exc |-> "None", val |-> GetFileList(files)]
    /\ UNCHANGED <<csv_files, mseed_file, files, csv_path, data_dir, df,
                   current_file_id, current_data>>
    /\ UNCHANGED uiVars

NextFiles == GetFileListStep

SpecFiles == InitFiles /\ [][NextFiles]_vars

----------------------------------------------------------------------------
(* Properties of validate_labels, checked under SpecValidate *)

Validated == ret.op = "validate_labels"
Returned == ret.exc = "None"
Result == ret.val[1]

\* get_p_arrival(file_id) returned None
ArrivalAbsent ==
    LET lookup == GetPArrival(df, current_file_id) IN
    lookup.exc = "None" /\ lookup.val = None

\* get_p_arrival(file_id) returned a time
ArrivalPresent ==
    LET lookup == GetPArrival(df, current_file_id) IN
    lookup.exc = "None" /\ lookup.val # None

\* arrival - trace start_time, in ticks
ExpectedRelative ==
    GetPArrival(df, current_file_id).val[1].timestamp
        - current_data[1].start_time.timestamp

\* 0 <= relative <= sample count / sampling_rate
WithinTrace(rel) ==
    /\ 0 <= rel
    /\ rel * current_data[1].sampling_rate
          <= Len(current_data[1].data) * TicksPerSecond

\* C1: validate_labels returns is_valid = true with has_p_arrival = false
\* exactly when get_p_arrival(file_id) is None, and then the error is
\* 'No P arrival time available' and p_arrival and relative_p_time are None,
\* whatever the trace holds.
C1_NoLabelIsValid ==
    Validated =>
        /\ (Returned /\ Result.is_valid /\ ~Result.details.has_p_arrival)
              <=> ArrivalAbsent
        /\ ArrivalAbsent =>
              /\ Result.error # None
              /\ Result.error[1].text = "No P arrival time available"
              /\ Result.details.p_arrival = None
              /\ Result.details.relative_p_time = None

\* a trace with a non-zero sample was validated without a label
C1_Witness ==
    /\ Validated /\ Returned /\ ArrivalAbsent
    /\ Result.is_valid /\ ~Result.details.has_p_arrival
    /\ \E i \in 1..Len(current_data[1].data) : current_data[1].data[i] # 0

\* C2: with a label present, is_valid holds exactly when
\* 0 <= relative_p_time <= duration, where relative_p_time is the arrival
\* minus the trace start and duration the sample count over the sampling rate.
C2_InclusiveWindow ==
    (Validated /\ ArrivalPresent) =>
        /\ Returned
        /\ Result.details.relative_p_time = Some(ExpectedRelative)
        /\ Result.is_valid <=> WithinTrace(ExpectedRelative)

\* the arrival sits exactly on the last instant of a non-empty window
C2_Witness ==
    /\ Validated /\ ArrivalPresent /\ Returned
    /\ ExpectedRelative > 0
    /\ ExpectedRelative * current_data[1].sampling_rate
          = Len(current_data[1].data) * TicksPerSecond
    /\ Result.is_valid

\* the arrival sits exactly on the first instant
C2_WitnessStart ==
    /\ Validated /\ ArrivalPresent /\ Returned
    /\ ExpectedRelative = 0
    /\ Result.is_valid

\* C3: in every returned result relative_p_time is present exactly when
\* has_p_arrival is true.
C3_RelativeIffArrival ==
    (Validated /\ Returned) =>
        (Result.details.relative_p_time # None <=> Result.details.has_p_arrival)

C3_Witness ==
    /\ Validated /\ Returned
    /\ Result.details.has_p_arrival
    /\ Result.details.relative_p_time # None
    /\ ~Result.is_valid

\* C4: in every returned result error is present exactly when the result
\* is invalid or the label is absent.
C4_ErrorIffInvalidOrAbsent ==
    (Validated /\ Returned) =>
        (Result.error # None <=> (~Result.is_valid \/ ~Result.details.has_p_arrival))

C4_Witness ==
    /\ Validated /\ Returned
    /\ Result.is_valid /\ Result.details.has_p_arrival
    /\ Result.error = None

\* C5: a validate_labels call leaves the label table, the trace record and
\* the other DataLoader fields as they were, and a call that follows a call
\* with the same inputs returns the same result.
C5_ValidateIsPure ==
    [][ret'.op = "validate_labels" =>
          /\ df' = df /\ csv_path' = csv_path /\ data_dir' = data_dir
          /\ current_data' = current_data
          /\ (ret.op = "validate_labels" /\ current_file_id' = current_file_id)
                => ret' = ret]_vars

\* a call on a labelled file has returned, and the table still holds the label
C5_Witness ==
    /\ Validated /\ Returned
    /\ Result.details.has_p_arrival
    /\ ArrivalPresent
    /\ Len(df.rows) = MaxLabelRows

----------------------------------------------------------------------------
(* Properties of load_mseed, checked under SpecLoad *)

Loaded == ret.op = "load_mseed"

\* the decoder raised, the stream is empty, the first trace has no sample,
\* or its sampling rate is not positive
Malformed(st) ==
    \/ st.raises
    \/ Len(st.traces) = 0
    \/ Len(st.traces[1].data) = 0
    \/ st.traces[1].sampling_rate <= 0

\* C6: load_mseed raises an error carrying the original cause, and returns
\* no record, exactly when the decoder raised, the trace set is empty, the
\* first trace has zero samples or the sampling rate is <= 0; otherwise it
\* returns a record and raises nothing.
C6_LoadFailsIffMalformed ==
    Loaded =>
        /\ Malformed(mseed_file) =>
              (ret.exc = "IOError" /\ ret.cause # "None" /\ ret.val = None)
        /\ ~Malformed(mseed_file) =>
              (ret.exc = "None" /\ ret.cause = "None" /\ ret.val # None)

\* a trace with samples and a zero sampling rate was rejected
C6_Witness ==
    /\ Loaded
    /\ ~mseed_file.raises /\ Len(mseed_file.traces) > 0
    /\ Len(mseed_file.traces[1].data) > 0
    /\ mseed_file.traces[1].sampling_rate = 0
    /\ ret.exc = "IOError"

AllEqual(data) == \A i, j \in 1..Len(data) : data[i] = data[j]

\* C7: for a trace whose samples are all equal, every element of
\* data_normalized is 0 and none was divided by the standard deviation; an
\* element is divided by std only when std is not zero.
C7_ConstantTraceNormalizesToZero ==
    (Loaded /\ ret.exc = "None") =>
        LET rec == ret.val[1] IN
        /\ AllEqual(rec.data) =>
              \A i \in 1..Len(rec.data_normalized) :
                  /\ rec.data_normalized[i].num = 0
                  /\ ~rec.data_normalized[i].by_std
        /\ \A i \in 1..Len(rec.data_normalized) :
              rec.data_normalized[i].by_std => rec.std_sq.num # 0

\* a constant non-zero trace of more than one sample was loaded
C7_Witness ==
    /\ Loaded /\ ret.exc = "None"
    /\ Len(ret.val[1].data) > 1
    /\ AllEqual(ret.val[1].data)
    /\ ret.val[1].data[1] # 0
    /\ \A i \in 1..Len(ret.val[1].data_normalized) :
          ret.val[1].data_normalized[i].num = 0

----------------------------------------------------------------------------
(* Properties of get_p_arrival, checked under Spec *)

LookedUp == ret.op = "get_p_arrival"

\* the identifier the caller means: the decimal value of an int or of a
\* string of digits; None for anything else
MeantId(id) ==
    IF id.kind = "int" THEN Some(id.n)
    ELSE IF id.s # <<>> /\ \A i \in 1..Len(id.s) : id.s[i] \in Digits
         THEN Some(DecimalValue(id.s)) ELSE None

\* the table has a row for n, and the first such row holds a number
HasNumericLabel(frame, n) ==
    /\ {"archivo", "lec_p"} \subseteq frame.cols
    /\ \E i \in 1..Len(frame.rows) :
          /\ frame.rows[i].archivo = n
          /\ ~frame.rows[i].lec_p.nan
          /\ \A j \in 1..(i - 1) : frame.rows[j].archivo # n

\* n is a key of the table
IsKey(frame, n) ==
    /\ "archivo" \in frame.cols
    /\ \E i \in 1..Len(frame.rows) : frame.rows[i].archivo = n

\* C8: get_p_arrival never raises, and returns None when the table is
\* empty, the file_id is not a key, the file_id is not a number, or the
\* stored value is NaN, for every file_id and every table load_csv can leave.
C8_LookupNeverRaises ==
    LookedUp =>
        /\ ret.exc = "None"
        /\ (\/ Len(df.rows) = 0
            \/ MeantId(ret.file_id) = None
            \/ ~IsKey(df, MeantId(ret.file_id)[1])
            \/ ~HasNumericLabel(df, MeantId(ret.file_id)[1])) => ret.val = None

\* C9: for every non-negative id n the table maps to a number (n = 0
\* included) and every zero-padded string form of n, get_p_arrival returns
\* the timestamp it returns for the integer n.
C9_ZeroPaddedLookup ==
    (/\ LookedUp
     /\ MeantId(ret.file_id) # None
     /\ HasNumericLabel(df, MeantId(ret.file_id)[1])) =>
        /\ ret.exc = "None"
        /\ ret.val # None
        /\ ret.val = GetPArrival(df, IntId(MeantId(ret.file_id)[1])).val

----------------------------------------------------------------------------
(* Properties of get_file_list, checked under SpecFiles *)

Listed == ret.op = "get_file_list"

\* the name without its extension and without anything from '_aug' on
BaseName(file) == BeforeAug(SubSeq(file, 1, Len(file) - 1))

IsDecimal(s) == s # <<>> /\ \A i \in 1..Len(s) : s[i] \in Digits

\* the IDs of the .mseed files whose base name is a decimal integer
ExpectedIds(walk) ==
    {DecimalValue(BaseName(walk[i])) :
        i \in {k \in 1..Len(walk) : EndsWithMseed(walk[k]) /\ IsDecimal(BaseName(walk[k]))}}

\* C10: get_file_list returns a strictly ascending list holding exactly the
\* integer IDs of the .mseed file names (extension, '_aug...' suffix and
\* leading zeros removed); every file whose base name is a decimal integer
\* contributes its ID and other names are skipped.
C10_FileListIsSortedIdSet ==
    Listed =>
        /\ \A i \in 1..(Len(ret.val) - 1) : ret.val[i] < ret.val[i + 1]
        /\ {ret.val[i] : i \in 1..Len(ret.val)} = ExpectedIds(files)


----------------------------------------------------------------------------
(* PlotWidget.calculate_metrics and PlotWidget.plot_data *)

MaxMetricLen == 3     \* samples of a short plotted array
MaxRefTicks == 5      \* latest reference time of a short array, in ticks

\* noise and signal windows: 500 samples on each side of the reference
WindowSamples == 500

Max2(a, b) == IF a >= b THEN a ELSE b
Min2(a, b) == IF a <= b THEN a ELSE b

\* int(x) on the float a / b (b > 0): truncation toward zero
Trunc(a, b) == IF a >= 0 THEN a \div b ELSE -((-a) \div b)

\* a bound of a Python slice on a sequence of n elements: a negative bound
\* counts from the end
SliceBound(i, n) == IF i < 0 THEN Max2(i + n, 0) ELSE Min2(i, n)

\* data[a:b]
PySlice(data, a, b) ==
    LET lo == SliceBound(a, Len(data))
        hi == SliceBound(b, Len(data))
    IN IF lo >= hi THEN <<>> ELSE SubSeq(data, lo + 1, hi)

\* the sum of w[i] ** 2 over lo <= i <= hi, by halves
RECURSIVE SumSquares(_, _, _)
SumSquares(w, lo, hi) ==
    IF lo > hi THEN 0
    ELSE IF lo = hi THEN w[lo] * w[lo]
    ELSE LET mid == (lo + hi) \div 2
         IN SumSquares(w, lo, mid) + SumSquares(w, mid + 1, hi)

\* np.sum(window ** 2)
Energy(w) == SumSquares(w, 1, Len(w))

\* np.mean(window ** 2): the sum over the count, nan for an empty window
Power(w) == [sum |-> Energy(w), n |-> Len(w)]

PowerPositiveOrZero(pw) == pw.n > 0 /\ pw.sum >= 0

\* noise_power > 0 (False for nan)
PowerPositive(pw) == pw.n > 0 /\ pw.sum > 0

AbsVal(x) == IF x < 0 THEN -x ELSE x

\* np.max(np.abs(data))
MaxAbs(data) ==
    CHOOSE m \in {AbsVal(data[i]) : i \in 1..Len(data)} :
        \A i \in 1..Len(data) : AbsVal(data[i]) <= m

\* 1 / np.mean(np.diff(times)): nan when times has fewer than two points
EstimatedRate(times) ==
    LET n == Len(times) IN
    IF n < 2 THEN [nan |-> TRUE, num |-> 0, den |-> 1]
    ELSE [nan |-> FALSE, num |-> (n - 1) * times[1].den,
          den |-> times[n].num - times[1].num]

NoMetrics == [exc |-> "None", max_amp |-> None, snr |-> None,
              energy_before |-> None, energy_after |-> None,
              p_sample |-> None, noise_window |-> None, signal_window |-> None]

\* calculate_metrics(data, p_arrival_time, sampling_rate): the returned
\* (max_amp, snr, energy_before, energy_after) with the locals it was made of.
\* p_arrival_time is an optional number of ticks, sampling_rate a fraction.
CalculateMetrics(data, p_arrival_time, sampling_rate) ==
    IF Len(data) = 0
    THEN [NoMetrics EXCEPT !.exc = "ValueError"]
    ELSE IF p_arrival_time = None
    THEN [NoMetrics EXCEPT !.max_amp = Some(MaxAbs(data))]
    ELSE IF sampling_rate.nan
    THEN [NoMetrics EXCEPT !.exc = "ValueError"]
    ELSE LET p_sample == Trunc(p_arrival_time[1] * sampling_rate.num,
                               TicksPerSecond * sampling_rate.den)
             noise_window == PySlice(data, Max2(0, p_sample - WindowSamples), p_sample)
             signal_window == PySlice(data, p_sample,
                                      Min2(Len(data), p_sample + WindowSamples))
             noise_power == Power(noise_window)
             signal_power == Power(signal_window)
         IN [exc |-> "None",
             max_amp |-> Some(MaxAbs(data)),
             snr |-> Some(IF PowerPositive(noise_power)
                          THEN [kind |-> "db", signal_power |-> signal_power,
                                noise_power |-> noise_power]
                          ELSE [kind |-> "inf", signal_power |-> signal_power,
                                noise_power |-> noise_power]),
             energy_before |-> Some(Energy(noise_window)),
             energy_after |-> Some(Energy(signal_window)),
             p_sample |-> Some(p_sample),
             noise_window |-> Some(noise_window),
             signal_window |-> Some(signal_window)]

\* plot_data(times, original_data, p_arrival_time=...): the stored request, the
\* metrics and the label texts; an exception of calculate_metrics leaves
\* plot_data before any label is set
PlotData(args) ==
    LET m == CalculateMetrics(args.original_data, args.p_arrival_time,
                              EstimatedRate(args.times))
    IN [op |-> "plot_data", args |-> args, exc |-> m.exc, metrics |-> m,
        max_amp_label |-> IF m.exc = "None" THEN m.max_amp ELSE None,
        snr_label |-> IF m.exc = "None" THEN m.snr ELSE None,
        energy_label |-> IF m.exc = "None" /\ m.snr # None
                         THEN Some([num |-> m.energy_after[1],
                                    den |-> m.energy_before[1]])
                         ELSE None]

\* np.arange(n) / sampling_rate
TimesOf(n, sampling_rate) == [i \in 1..n |-> [num |-> i - 1, den |-> sampling_rate]]

Amplitudes == {-1, 0, 2}
PlotRates == {1, 2}
\* the sampling_rate calculate_metrics assumes by default, used for the long array
DefaultSamplingRate == 100
LongLength == 2 * WindowSamples + MaxMetricLen
LongData == [i \in 1..LongLength |-> IF i % 3 = 0 THEN 0 ELSE IF i % 3 = 1 THEN 1 ELSE -1]

\* the reference of a long array: before it, at its start, one and two windows
\* in, beyond its end
LongRefTicks == {-1, 0, (WindowSamples * TicksPerSecond) \div DefaultSamplingRate,
                 (WindowSamples * TicksPerSecond) \div DefaultSamplingRate + 1,
                 3 * ((WindowSamples * TicksPerSecond) \div DefaultSamplingRate)}

PlotArgs ==
    {[times |-> TimesOf(Len(d), r), original_data |-> d, p_arrival_time |-> t] :
        d \in SeqsUpTo(Amplitudes, MaxMetricLen) \ {<<>>}, r \in PlotRates,
        t \in {None} \cup {Some(k) : k \in (0 - MaxRefTicks)..MaxRefTicks}}
    \cup
    {[times |-> TimesOf(LongLength, DefaultSamplingRate), original_data |-> LongData,
      p_arrival_time |-> t] : t \in {None} \cup {Some(k) : k \in LongRefTicks}}

PlotPending(args) ==
    [op |-> "__init__", args |-> args, exc |-> "None", metrics |-> NoMetrics,
     max_amp_label |-> None, snr_label |-> None, energy_label |-> None]

InitMetrics ==
    /\ csv_files = [p \in CsvPaths |-> None]
    /\ mseed_file = NoStream
    /\ files = <<>>
    /\ Constructed(None)
    /\ current_file_id = IntId(0)
    /\ current_data = None
    /\ validation_window = NoBatch
    /\ main_window = NoMain
    /\ plot_widget \in {PlotPending(a) : a \in PlotArgs}

PlotDataStep ==
    /\ plot_widget.op = "__init__"
    /\ plot_widget' = PlotData(plot_widget.args)
    /\ UNCHANGED <<csv_files, mseed_file, files, csv_path, data_dir, df,
                   current_file_id, current_data, ret, validation_window, main_window>>

NextMetrics == PlotDataStep

SpecMetrics == InitMetrics /\ [][NextMetrics]_vars


----------------------------------------------------------------------------
(* Properties of the signal metrics *)

Plotted == plot_widget.op = "plot_data"
RefGiven == plot_widget.args.p_arrival_time # None
PlotSamples == plot_widget.args.original_data
PlotMetrics == plot_widget.metrics

\* floor(reference_time * sampling_rate), with the rate the times were made of
FloorSample ==
    (plot_widget.args.p_arrival_time[1] * plot_widget.args.times[1].den)
        \div TicksPerSecond

\* the samples of data whose 0-based index is in [lo, hi)
IndexedWindow(data, lo, hi) ==
    LET l == Max2(lo, 0)
        h == Min2(hi, Len(data))
    IN IF h <= l THEN <<>> ELSE SubSeq(data, l + 1, h)

\* w is a run of consecutive elements of s
IsRunOf(w, s) ==
    \/ w = <<>>
    \/ \E a \in 1..Len(s) : a + Len(w) - 1 <= Len(s) /\ w = SubSeq(s, a, a + Len(w) - 1)

\* C11: for every sample array and every reference time, negative or beyond the
\* end included, calculate_metrics raises no error, its noise window holds only
\* samples with index in [max(0, p-500), p) and its signal window only samples
\* with index in [p, min(length, p+500)), p = floor(reference * sampling_rate),
\* so each window has at most 500 samples
C11_WindowsClipped ==
    (Plotted /\ RefGiven) =>
        /\ plot_widget.exc = "None"
        /\ PlotMetrics.noise_window # None
        /\ PlotMetrics.signal_window # None
        /\ Len(PlotMetrics.noise_window[1]) <= WindowSamples
        /\ Len(PlotMetrics.signal_window[1]) <= WindowSamples
        /\ IsRunOf(PlotMetrics.noise_window[1],
                   IndexedWindow(PlotSamples, Max2(0, FloorSample - WindowSamples),
                                 FloorSample))
        /\ IsRunOf(PlotMetrics.signal_window[1],
                   IndexedWindow(PlotSamples, FloorSample,
                                 Min2(Len(PlotSamples), FloorSample + WindowSamples)))

\* C12: calculate_metrics always computes max_amplitude; without a reference
\* time snr, energy_before and energy_after are all None, with one all three
\* are present
C12_MetricsPresentIffReference ==
    Plotted =>
        /\ PlotMetrics.max_amp # None
        /\ ~RefGiven => /\ PlotMetrics.snr = None
                        /\ PlotMetrics.energy_before = None
                        /\ PlotMetrics.energy_after = None
        /\ RefGiven => /\ PlotMetrics.snr # None
                       /\ PlotMetrics.energy_before # None
                       /\ PlotMetrics.energy_after # None

WindowsFormed == Plotted /\ PlotMetrics.noise_window # None

AllZero(w) == \A i \in 1..Len(w) : w[i] = 0

\* C13: once the windows are formed, snr is +infinity whenever the noise power
\* is not greater than 0 (an empty or an all-zero noise window) and otherwise
\* 10*log10 of the signal power over a positive noise power; no error is raised
C13_InfiniteSnrOnSilentNoise ==
    WindowsFormed =>
        LET nw == PlotMetrics.noise_window[1]
            sw == PlotMetrics.signal_window[1]
            snr == PlotMetrics.snr[1]
        IN /\ plot_widget.exc = "None"
           /\ AllZero(nw) => snr.kind = "inf"
           /\ ~AllZero(nw) =>
                 /\ snr.kind = "db"
                 /\ snr.noise_power = [sum |-> Energy(nw), n |-> Len(nw)]
                 /\ snr.signal_power = [sum |-> Energy(sw), n |-> Len(sw)]
                 /\ snr.noise_power.sum > 0

\* a call with a silent, non-empty noise window
C13_Witness ==
    /\ WindowsFormed
    /\ PlotMetrics.noise_window[1] # <<>>
    /\ AllZero(PlotMetrics.noise_window[1])
    /\ PlotMetrics.snr[1].kind = "inf"

\* C14: plot_data forms energy_after / energy_before only when
\* energy_before > 0
C14_RatioOnlyWhenEnergyBefore ==
    (Plotted /\ plot_widget.energy_label # None) =>
        plot_widget.energy_label[1].den > 0


----------------------------------------------------------------------------
(* ValidationWindow: the batch run over the files of the data directory *)

MaxBatchFiles == 2    \* files under the data directory of a batch run
MaxStarts == 2        \* analysis runs started in one session

GetMseedPathLegacy(walk, id) ==
    IF InList(PyStr(id) \o <<".mseed">>, walk) THEN PyStr(id) \o <<".mseed">>
    ELSE <<"0">> \o PyStr(id) \o <<".mseed">>

\* get_mseed_path(file_id) for an int file_id under the walked directory: the
\* first matching file, else '<id>.mseed' if it exists, else '0<id>.mseed'
GetMseedPath(walk, id) ==
    LET Matches(file) == /\ EndsWithMseed(file)
                         /\ FileIdOfName(file) # None
                         /\ FileIdOfName(file)[1] = id
        matching_files == SelectSeq(walk, Matches)
        direct_path == PyStr(id) \o <<".mseed">>
    IN IF matching_files # <<>> THEN matching_files[1]
       ELSE IF InList(direct_path, walk) THEN direct_path
       ELSE <<"0">> \o direct_path

\* ValidationWindow(csv_path, data_dir) after __init__
NewWindow ==
    [op |-> "__init__", exc |-> "None", dialog |-> "None",
     status_label |-> "", analyze_button |-> TRUE, export_buttons |-> FALSE,
     table |-> <<>>, summary_label |-> None, validation_results |-> <<>>,
     analyzed_files |-> 0, total_files |-> 0, file_list |-> <<>>,
     progress_timer |-> FALSE, pending |-> 0, starts |-> 0, log |-> <<>>]

\* start_analysis; pending counts the analyze_next_file calls scheduled with
\* QTimer.singleShot, starts the runs begun, log the files the run went through
StartAnalysis(w, frame, walk) ==
    IF Len(frame.rows) = 0
    THEN [w EXCEPT !.op = "start_analysis", !.exc = "None", !.dialog = "No Data"]
    ELSE [w EXCEPT !.op = "start_analysis", !.exc = "None", !.dialog = "None",
                   !.status_label = "Analyzing files...",
                   !.analyze_button = FALSE, !.export_buttons = FALSE,
                   !.table = <<>>, !.summary_label = None,
                   !.validation_results = <<>>, !.analyzed_files = 0,
                   !.file_list = GetFileList(walk),
                   !.total_files = Len(GetFileList(walk)),
                   !.progress_timer = TRUE, !.pending = @ + 1,
                   !.starts = @ + 1, !.log = <<>>]

\* the table row of a file with an invalid label
InvalidRow(file_id, result) ==
    [file_id |-> PyStr(file_id), status |-> "Invalid",
     duration |-> result.details.duration,
     p_time |-> IF result.details.p_arrival = None THEN None
                ELSE result.details.relative_p_time,
     error |-> result.error]

\* the try block of analyze_next_file for the file at the current index: what
\* became of the file, and the window after it
TryAnalyze(w, frame, walk, streams) ==
    LET file_id == w.file_list[w.analyzed_files + 1]
        file_path == GetMseedPath(walk, file_id)
    IN IF ~InList(file_path, walk) THEN [outcome |-> "missing", w |-> w]
       ELSE LET loaded == LoadMseed(streams[file_path]) IN
            IF loaded.exc # "None" THEN [outcome |-> loaded.exc, w |-> w]
            ELSE LET validated == ValidateLabels(frame, IntId(file_id), loaded.val[1]) IN
                 IF validated.exc # "None" THEN [outcome |-> validated.exc, w |-> w]
                 ELSE LET result == validated.val[1] IN
                      [outcome |-> "ok",
                       w |-> [w EXCEPT !.validation_results = Append(@, result),
                                       !.table = IF result.is_valid THEN @
                                                 ELSE Append(@, InvalidRow(file_id, result))]]

CaughtNever(outcome) == FALSE

\* except Exception: every error of the try block is caught and printed
Caught(outcome) == TRUE

NextIndexSkipping(w) == w.analyzed_files + 2

\* self.analyzed_files += 1
NextIndex(w) == w.analyzed_files + 1

\* finish_analysis: the summary divides by total_files
FinishAnalysis(w) ==
    LET done == [w EXCEPT !.progress_timer = FALSE, !.analyze_button = TRUE,
                          !.export_buttons = TRUE,
                          !.status_label = "Analysis complete"]
        invalid_count == Len(w.table)
    IN IF w.total_files = 0
       THEN [done EXCEPT !.exc = "ZeroDivisionError"]
       ELSE [done EXCEPT !.summary_label =
                Some([invalid_count |-> invalid_count, total |-> w.total_files,
                      percent |-> [num |-> invalid_count * 100,
                                   den |-> w.total_files]])]

\* analyze_next_file, called by a timer that was pending
AnalyzeNextFile(w, frame, walk, streams) ==
    LET fired == [w EXCEPT !.op = "analyze_next_file", !.exc = "None",
                           !.dialog = "None", !.pending = @ - 1]
    IN IF w.analyzed_files >= Len(w.file_list) THEN FinishAnalysis(fired)
       ELSE LET t == TryAnalyze(fired, frame, walk, streams)
                entry == [index |-> w.analyzed_files + 1,
                          file_id |-> w.file_list[w.analyzed_files + 1],
                          outcome |-> t.outcome]
            IN IF t.outcome \notin {"ok", "missing"} /\ ~Caught(t.outcome)
               THEN [t.w EXCEPT !.exc = t.outcome, !.log = Append(@, entry)]
               ELSE [t.w EXCEPT !.analyzed_files = NextIndex(w),
                                !.pending = @ + 1, !.log = Append(@, entry)]


\* The files of a batch: IDs 1 and 10, and an augmented copy of file 1
BatchNames == {<<"1", ".mseed">>, <<"1", "0", ".mseed">>,
               <<"0", "1", "_aug", ".mseed">>}

\* what os.walk finds: distinct names in some order
BatchWalks == {walk \in SeqsUpTo(BatchNames, MaxBatchFiles) :
                  \A i, j \in 1..Len(walk) : i # j => walk[i] # walk[j]}

\* the working directory holds any of the walks, the other directory nothing
\* or file 10 alone
BatchDirectories ==
    {[d \in DataDirs |-> IF d = "cwd" THEN a ELSE b] :
        a \in BatchWalks, b \in {<<>>, << <<"1", "0", ".mseed">> >>}}

\* a two-sample trace at one sample per second
BatchStream(starttime) ==
    [raises |-> FALSE,
     traces |-> <<[data |-> <<0, 1>>, sampling_rate |-> 1, starttime |-> starttime]>>]

\* file 1 starts at tick 2 or does not decode, file 10 starts at tick 5 or
\* does not decode, the augmented copy is a good trace
BatchContents ==
    {[name \in BatchNames |->
        IF name = <<"1", ".mseed">> THEN a
        ELSE IF name = <<"1", "0", ".mseed">> THEN b
        ELSE BatchStream(2)] :
        a \in {NoStream, BatchStream(2)}, b \in {NoStream, BatchStream(5)}}

NumericCell(t) == [numeric |-> TRUE, v |-> t]

\* the label files: a.csv labels both files at tick 4 (inside file 1, before
\* file 10), or has no 'archivo' column; b.csv is missing or labels file 10
\* at tick 5
BatchCsvFiles ==
    {[p \in CsvPaths |-> IF p = "a.csv" THEN Some(a) ELSE b] :
        a \in {[readable |-> TRUE, cols |-> {"archivo", "lec_p"},
                rows |-> <<[archivo |-> 1, lec_p |-> NumericCell(4)],
                           [archivo |-> 10, lec_p |-> NumericCell(4)]>>],
               [readable |-> TRUE, cols |-> {"lec_p"},
                rows |-> <<[lec_p |-> NumericCell(4)]>>]},
        b \in {None,
               Some([readable |-> TRUE, cols |-> {"archivo", "lec_p"},
                     rows |-> <<[archivo |-> 10, lec_p |-> NumericCell(5)]>>])}}

\* the window is opened on a.csv and the working directory
InitBatch ==
    /\ csv_files \in BatchCsvFiles
    /\ files \in BatchDirectories
    /\ mseed_file \in BatchContents
    /\ current_file_id = IntId(0)
    /\ current_data = None
    /\ plot_widget = NoPlot
    /\ main_window = NoMain
    /\ LET r == LoadCsv(None, Some("a.csv"), OnDisk(csv_files, Some("a.csv"))) IN
       /\ csv_path = r.csv_path
       /\ df = r.df
    /\ data_dir = "cwd"
    /\ ret = NoCall
    /\ validation_window = NewWindow

\* the Analyze button, enabled outside a run
StartAnalysisStep ==
    /\ validation_window.analyze_button
    /\ validation_window.starts < MaxStarts
    /\ validation_window' = StartAnalysis(validation_window, df, files[data_dir])
    /\ UNCHANGED <<csv_files, mseed_file, files, csv_path, data_dir, df,
                   current_file_id, current_data, ret, plot_widget, main_window>>

\* select_csv_file with a chosen file: a successful load starts a new analysis
SelectCsvFileStep ==
    /\ validation_window.starts < MaxStarts
    /\ \E file_path \in CsvPaths :
        LET r == LoadCsv(csv_path, Some(file_path), OnDisk(csv_files, Some(file_path)))
        IN /\ csv_path' = r.csv_path
           /\ df' = r.df
           /\ validation_window' =
                IF r.val[1]
                THEN StartAnalysis([validation_window EXCEPT
                                       !.status_label = "CSV file loaded successfully"],
                                   r.df, files[data_dir])
                ELSE [validation_window EXCEPT !.op = "select_csv_file",
                                               !.exc = "None", !.dialog = "None",
                                               !.status_label = r.val[2]]
    /\ UNCHANGED <<csv_files, mseed_file, files, data_dir,
                   current_file_id, current_data, ret, plot_widget, main_window>>

\* select_data_directory with a chosen directory
SelectDataDirectoryStep ==
    /\ \E directory \in DataDirs : data_dir' = directory
    /\ UNCHANGED <<csv_files, mseed_file, files, csv_path, df, current_file_id,
                   current_data, ret, uiVars>>

\* a pending single-shot timer calls analyze_next_file
AnalyzeNextFileStep ==
    /\ validation_window.pending > 0
    /\ validation_window' =
          AnalyzeNextFile(validation_window, df, files[data_dir], mseed_file)
    /\ UNCHANGED <<csv_files, mseed_file, files, csv_path, data_dir, df,
                   current_file_id, current_data, ret, plot_widget, main_window>>

NextBatch ==
    \/ StartAnalysisStep
    \/ SelectCsvFileStep
    \/ SelectDataDirectoryStep
    \/ AnalyzeNextFileStep

SpecBatch == InitBatch /\ [][NextBatch]_vars


----------------------------------------------------------------------------
(* Properties of the batch run *)

Window == validation_window
Running == Window.progress_timer
Finished == Window.status_label = "Analysis complete" /\ ~Window.progress_timer
LogIndices(outcomes) == {k \in 1..Len(Window.log) : Window.log[k].outcome \in outcomes}
Failures == {"missing", "IOError", "KeyError"}

\* every index up to analyzed_files went through analyze_next_file, in turn
AttemptedInTurn ==
    /\ Len(Window.log) = Window.analyzed_files
    /\ \A k \in 1..Len(Window.log) :
          /\ Window.log[k].index = k
          /\ Window.log[k].file_id = Window.file_list[k]

\* C15: a missing file, a decode failure or a validation failure never aborts
\* the batch: the error does not leave analyze_next_file, every file of the
\* list up to the current index was attempted in turn, a failing file added no
\* result, an unfinished run always has its next analyze_next_file call
\* scheduled, and finish_analysis is reached only past the last file
C15_BadFileNeverAborts ==
    /\ Window.exc \notin Failures
    /\ Running => Window.pending >= 1
    /\ AttemptedInTurn
    /\ Len(Window.validation_results) = Cardinality(LogIndices({"ok"}))
    /\ Finished => Window.analyzed_files = Len(Window.file_list)

\* a finished run that went on after a file that failed
C15_Witness ==
    /\ Finished
    /\ \E k \in 1..Len(Window.log) :
          /\ Window.log[k].outcome \in Failures
          /\ k < Len(Window.log)


\* C16: the total of the batch summary is the number of accumulated validation
\* results, and the percentage is invalid_count / total * 100 with that total
C16_TotalIsAnalyzedCount ==
    Window.summary_label # None =>
        LET summary == Window.summary_label[1] IN
        /\ summary.total = Len(Window.validation_results)
        /\ summary.percent = [num |-> summary.invalid_count * 100,
                              den |-> Len(Window.validation_results)]

FileIdsOf(entries) == [k \in 1..Len(entries) |-> entries[k].file_id]
ResultIds == [k \in 1..Len(Window.validation_results) |->
                 Window.validation_results[k].details.file_id.n]
IsOk(entry) == entry.outcome = "ok"

\* C17: the files are processed in file-list order, index i before index i+1
\* and each index once per run, and the results are in the order of their
\* file IDs in the list
C17_ProcessedInListOrder ==
    /\ AttemptedInTurn
    /\ Window.analyzed_files <= Len(Window.file_list)
    /\ ResultIds = FileIdsOf(SelectSeq(Window.log, IsOk))

\* a finished run of two files, both with a result
C17_Witness ==
    /\ Finished
    /\ Len(Window.log) >= 2
    /\ Len(Window.validation_results) >= 2

IsInvalid(result) == ~result.is_valid

\* C18: validation_results holds one result for each file processed so far
\* that was found and loaded, the table has one row for each result with
\* is_valid = false, and a run starts with no results
C18_OneResultPerLoadedFile ==
    /\ Len(Window.validation_results) = Cardinality(LogIndices({"ok", "KeyError"}))
    /\ Len(Window.table) = Len(SelectSeq(Window.validation_results, IsInvalid))
    /\ Window.analyzed_files = 0 /\ Running => Window.validation_results = <<>>


----------------------------------------------------------------------------
(* bandpass_filter, with cutoff frequencies in tenths of a hertz *)

\* a validation without the Nyquist criterion
ValidateFilterParamsNoNyquist(fs, lowcut, highcut, order) ==
    LET Clip(c) == Max2(10 * fs, Min2(990 * 10 * fs, 2000 * c))
    IN IF fs <= 0 \/ order < 1 \/ lowcut <= 0 \/ highcut <= 0
       THEN [exc |-> "ValueError", low |-> 0, high |-> 0]
       ELSE IF Clip(lowcut) >= Clip(highcut)
       THEN [exc |-> "ValueError", low |-> 0, high |-> 0]
       ELSE [exc |-> "None", low |-> Clip(lowcut), high |-> Clip(highcut)]

\* validate_filter_params(fs, lowcut, highcut, order): the error, or the
\* cutoffs over the Nyquist frequency clipped to [0.001, 0.99], both as
\* numerators over 1000 * 10 * fs
ValidateFilterParams(fs, lowcut, highcut, order) ==
    LET Clip(c) == Max2(10 * fs, Min2(990 * 10 * fs, 2000 * c))
    IN IF fs <= 0 \/ order < 1 \/ lowcut <= 0 \/ highcut <= 0
       THEN [exc |-> "ValueError", low |-> 0, high |-> 0]
       ELSE IF 2 * lowcut >= 10 * fs \/ 2 * highcut >= 10 * fs
       THEN [exc |-> "ValueError", low |-> 0, high |-> 0]
       ELSE IF Clip(lowcut) >= Clip(highcut)
       THEN [exc |-> "ValueError", low |-> 0, high |-> 0]
       ELSE [exc |-> "None", low |-> Clip(lowcut), high |-> Clip(highcut)]

\* signal.filtfilt(b, a, x) pads with 3 * max(len(a), len(b)) samples, the
\* band filter of that order having 2 * order + 1 coefficients, and raises
\* ValueError unless the signal is longer than the padding
FiltfiltFails(n, order) == n <= 3 * (2 * order + 1)

\* bandpass_filter(signal_data, fs, lowcut, highcut, order): every error is
\* raised again as RuntimeError by the outer except clause; the filtered
\* samples are not computed, only what they were made of; built and applied
\* tell whether signal.butter was called and whether signal.filtfilt returned
BandpassFilter(signal_data, fs, lowcut, highcut, order) ==
    IF Len(signal_data) = 0
    THEN [exc |-> "RuntimeError", cause |-> "ValueError", val |-> None,
          built |-> FALSE, applied |-> FALSE]
    ELSE IF ValidateFilterParams(fs, lowcut, highcut, order).exc # "None"
    THEN [exc |-> "RuntimeError", cause |-> "ValueError", val |-> None,
          built |-> FALSE, applied |-> FALSE]
    ELSE IF FiltfiltFails(Len(signal_data), order)
    THEN [exc |-> "RuntimeError", cause |-> "RuntimeError", val |-> None,
          built |-> TRUE, applied |-> FALSE]
    ELSE [exc |-> "None", cause |-> "None",
          val |-> Some([filtered |-> signal_data,
                        low |-> ValidateFilterParams(fs, lowcut, highcut, order).low,
                        high |-> ValidateFilterParams(fs, lowcut, highcut, order).high,
                        order |-> order]),
          built |-> TRUE, applied |-> TRUE]

----------------------------------------------------------------------------
(* MainWindow: the filter controls and the saved filter configuration *)

\* the ranges and the initial values of the spin boxes, cutoffs in tenths
LowCutMin == 1
LowCutMax == 100
LowCutDefault == 10
HighCutMin == 50
HighCutMax == 500
HighCutDefault == 200
FilterOrderMin == 2
FilterOrderMax == 8
FilterOrderDefault == 4

DefaultControls == [low_cut |-> LowCutDefault, high_cut |-> HighCutDefault,
                    filter_order |-> FilterOrderDefault]

\* setValue keeps the value inside the range of the spin box
Clamp(v, lo, hi) == Max2(lo, Min2(hi, v))

RECURSIVE SetLowCut(_, _)
\* low_cut.setValue(v): a changed value calls validate_filter_ranges, which
\* moves a low cut that reached the high cut to 0.1 below it
SetLowCut(c, v) ==
    LET new == Clamp(v, LowCutMin, LowCutMax) IN
    IF new = c.low_cut THEN c
    ELSE IF new >= c.high_cut
    THEN SetLowCut([c EXCEPT !.low_cut = new], c.high_cut - 1)
    ELSE [c EXCEPT !.low_cut = new]

RECURSIVE SetHighCut(_, _)
\* high_cut.setValue(v): a high cut that came down to the low cut is moved
\* to 0.1 above it
SetHighCut(c, v) ==
    LET new == Clamp(v, HighCutMin, HighCutMax) IN
    IF new = c.high_cut THEN c
    ELSE IF c.low_cut >= new
    THEN SetHighCut([c EXCEPT !.high_cut = new], c.low_cut + 1)
    ELSE [c EXCEPT !.high_cut = new]

\* filter_order.setValue(v)
SetFilterOrder(c, v) == [c EXCEPT !.filter_order = Clamp(v, FilterOrderMin, FilterOrderMax)]

\* a value of the JSON object: the key is missing, the value is text that
\* float() and int() reject, or it is a number
MissingKey == [kind |-> "missing", v |-> 0]
TextValue == [kind |-> "text", v |-> 0]
Number(v) == [kind |-> "number", v |-> v]

\* what is at config_file: nothing, text json.load rejects, or an object
ConfigFiles ==
    {None, Some([corrupt |-> TRUE, low_cut |-> MissingKey, high_cut |-> MissingKey,
                 filter_order |-> MissingKey])}
    \cup {Some([corrupt |-> FALSE, low_cut |-> l, high_cut |-> h, filter_order |-> o]) :
            l \in {MissingKey, TextValue, Number(5), Number(20), Number(300)},
            h \in {MissingKey, TextValue, Number(10), Number(80), Number(250)},
            o \in {MissingKey, TextValue, Number(1), Number(6), Number(9)}}

\* load_last_config: the controls are set one after the other inside the try
\* block, and the except clause only prints
LoadLastConfig(c, file) ==
    IF file = None \/ file[1].corrupt \/ file[1].low_cut.kind # "number" THEN c
    ELSE LET config == file[1]
             c1 == SetLowCut(c, config.low_cut.v)
         IN IF config.high_cut.kind # "number" THEN c1
            ELSE LET c2 == SetHighCut(c1, config.high_cut.v) IN
                 IF config.filter_order.kind # "number" THEN c2
                 ELSE SetFilterOrder(c2, config.filter_order.v)

\* MainWindow.__init__ up to the call of load_last_config
InitConfig ==
    /\ csv_files = [p \in CsvPaths |-> None]
    /\ mseed_file = NoStream
    /\ files = <<>>
    /\ Constructed(None)
    /\ current_file_id = IntId(0)
    /\ current_data = None
    /\ plot_widget = NoPlot
    /\ validation_window = NoBatch
    /\ main_window \in {[op |-> "__init__", exc |-> "None", controls |-> DefaultControls,
                         config_file |-> f] : f \in ConfigFiles}

LoadLastConfigStep ==
    /\ main_window.op = "__init__"
    /\ main_window' = [main_window EXCEPT
                          !.op = "load_last_config",
                          !.controls = LoadLastConfig(@, main_window.config_file)]
    /\ UNCHANGED <<csv_files, mseed_file, files, csv_path, data_dir, df,
                   current_file_id, current_data, ret, plot_widget, validation_window>>

NextConfig == LoadLastConfigStep

SpecConfig == InitConfig /\ [][NextConfig]_vars

MalformedConfig(file) ==
    /\ file # None
    /\ \/ file[1].corrupt
       \/ \E key \in {"low_cut", "high_cut", "filter_order"} : file[1][key].kind # "number"

\* C20: after load_last_config on a corrupt file, or on one with a missing key
\* or a non-numeric value, the low cut, the high cut and the order hold their
\* defaults and no exception propagates
C20_MalformedConfigGivesDefaults ==
    (main_window.op = "load_last_config" /\ MalformedConfig(main_window.config_file)) =>
        /\ main_window.controls = DefaultControls
        /\ main_window.exc = "None"


----------------------------------------------------------------------------
(* MainWindow: load_file, apply_filter and the handlers that call them *)

\* plot_data on the normalized samples of a loaded trace: the request is
\* stored first, then calculate_metrics raises for a reference time with the
\* nan sampling rate of a one-sample trace; the metric values are left out
PlotNormalized(plot, times, original_data, filtered_data, p_arrival_time, file_id) ==
    [plot EXCEPT !.op = "plot_data",
                 !.args = Some([times |-> times, original_data |-> original_data,
                                filtered_data |-> filtered_data,
                                p_arrival_time |-> p_arrival_time,
                                file_id |-> file_id]),
                 !.exc = IF p_arrival_time # None /\ EstimatedRate(times).nan
                         THEN "ValueError" ELSE "None"]

\* MainWindow after the widgets are built: b.m the window, b.id and b.data
\* current_file_id and current_data, b.plot the plot widget
NewMain(file_list) ==
    [m |-> [op |-> "__init__", exc |-> "None", status |-> "Ready",
            file_combo |-> file_list,
            current_text |-> IF file_list = <<>> THEN None ELSE Some(file_list[1]),
            filter_active |-> FALSE, controls |-> DefaultControls],
     id |-> None, data |-> None,
     plot |-> [op |-> "__init__", args |-> None, exc |-> "None", validation |-> None]]

\* the inner except clause of load_file
ProcessingError(b, plot) ==
    [b EXCEPT !.m.status = "Error processing file", !.data = None, !.plot = plot]

\* load_file(file_id) with the text of the combo box, or the int kept in
\* current_file_id, given as its decimal text
LoadFile(b, text, walk, streams, frame) ==
    IF PyInt(text) = None THEN [b EXCEPT !.m.status = "Invalid file ID format"]
    ELSE
    LET file_id == PyInt(text)[1]
        b1 == [b EXCEPT !.id = Some(file_id)]
        file_path == GetMseedPath(walk, file_id)
    IN
    IF ~InList(file_path, walk) THEN [b1 EXCEPT !.m.status = "File not found"]
    ELSE
    LET loaded == LoadMseed(streams[file_path]) IN
    IF loaded.exc # "None" THEN ProcessingError(b1, b1.plot)
    ELSE
    LET signal == loaded.val[1]
        lookup == GetPArrival(frame, IntId(file_id))
    IN
    IF lookup.exc # "None" THEN ProcessingError(b1, b1.plot)
    ELSE
    LET p_time == IF lookup.val = None THEN None
                  ELSE Some(TimeDiff(lookup.val[1], signal.start_time))
        validated == ValidateLabels(frame, IntId(file_id), signal)
        shown == [b1.plot EXCEPT !.validation = validated.val]
        filtered == IF b1.m.filter_active
                    THEN BandpassFilter(signal.data_normalized, signal.sampling_rate,
                                        b1.m.controls.low_cut, b1.m.controls.high_cut,
                                        b1.m.controls.filter_order)
                    ELSE [exc |-> "None", cause |-> "None", val |-> None,
                          built |-> FALSE, applied |-> FALSE]
    IN
    IF filtered.exc # "None" THEN ProcessingError(b1, shown)
    ELSE
    LET plotted == PlotNormalized(shown, signal.times, signal.data_normalized,
                                  filtered.val, p_time, file_id)
    IN
    IF plotted.exc # "None" THEN ProcessingError(b1, plotted)
    ELSE [b1 EXCEPT !.data = Some(signal), !.plot = plotted,
                    !.m.status = "Loaded file"]

\* the except clause of apply_filter
FilterError(b, plot) ==
    [b EXCEPT !.m.status = "Error applying filter", !.m.filter_active = FALSE,
              !.plot = plot]

\* apply_filter: the current trace with the arrival of current_file_id
ApplyFilter(b, frame) ==
    IF b.data = None THEN [b EXCEPT !.m.status = "No data loaded to filter"]
    ELSE
    LET signal == b.data[1]
        filtered == BandpassFilter(signal.data_normalized, signal.sampling_rate,
                                   b.m.controls.low_cut, b.m.controls.high_cut,
                                   b.m.controls.filter_order)
        lookup == GetPArrival(frame, IntId(b.id[1]))
    IN
    IF filtered.exc # "None" \/ lookup.exc # "None" THEN FilterError(b, b.plot)
    ELSE
    LET p_time == IF lookup.val = None THEN None
                  ELSE Some(TimeDiff(lookup.val[1], signal.start_time))
        plotted == PlotNormalized(b.plot, signal.times, signal.data_normalized,
                                  filtered.val, p_time, b.id[1])
    IN
    IF plotted.exc # "None" THEN FilterError(b, plotted)
    ELSE [b EXCEPT !.plot = plotted, !.m.filter_active = TRUE,
                   !.m.status = "Filter applied successfully"]


\* a trace long enough for filtfilt at the default order, sampled fast enough
\* for the default cutoffs
FilterableLength == 3 * (2 * FilterOrderDefault + 1) + 1
LongStream(starttime) ==
    [raises |-> FALSE,
     traces |-> <<[data |-> [i \in 1..FilterableLength |-> i % 2],
                   sampling_rate |-> DefaultSamplingRate, starttime |-> starttime]>>]

\* file 1 is a short trace or does not decode, file 10 is a long trace
MainContents ==
    {[name \in BatchNames |->
        IF name = <<"1", ".mseed">> THEN a
        ELSE IF name = <<"1", "0", ".mseed">> THEN LongStream(5)
        ELSE BatchStream(2)] : a \in {NoStream, BatchStream(2)}}

\* the working directory holds file 1, file 10, both or neither
MainDirectories ==
    {[d \in DataDirs |-> IF d = "cwd" THEN a ELSE <<>>] :
        a \in {walk \in BatchWalks :
                  \A i \in 1..Len(walk) : "_aug" \notin {walk[i][k] : k \in 1..Len(walk[i])}}}

MainState == [m |-> main_window, id |-> current_file_id, data |-> current_data,
              plot |-> plot_widget]

SetMainState(b) ==
    /\ main_window' = b.m
    /\ current_file_id' = b.id
    /\ current_data' = b.data
    /\ plot_widget' = b.plot

\* MainWindow(csv_path): the loader, the combo box filled from get_file_list,
\* and load_file on its first entry
InitMain ==
    /\ csv_files \in BatchCsvFiles
    /\ files \in MainDirectories
    /\ mseed_file \in MainContents
    /\ validation_window = NoBatch
    /\ \E arg \in {None, Some("a.csv")} : Constructed(arg)
    /\ LET walk == files[data_dir]
           b == NewMain(GetFileList(walk))
           first == IF b.m.file_combo = <<>> THEN b
                    ELSE LoadFile(b, PyStr(b.m.file_combo[1]), walk, mseed_file, df)
       IN /\ main_window = first.m
          /\ current_file_id = first.id
          /\ current_data = first.data
          /\ plot_widget = first.plot

\* another entry of the combo box is chosen: currentTextChanged calls load_file
SelectFileStep ==
    /\ \E i \in 1..Len(main_window.file_combo) :
          /\ Some(main_window.file_combo[i]) # main_window.current_text
          /\ SetMainState(LoadFile([MainState EXCEPT
                                       !.m.op = "load_file",
                                       !.m.current_text = Some(main_window.file_combo[i])],
                                   PyStr(main_window.file_combo[i]),
                                   files[data_dir], mseed_file, df))
    /\ UNCHANGED <<csv_files, mseed_file, files, csv_path, data_dir, df, ret,
                   validation_window>>

\* the Apply Filter button
ApplyFilterStep ==
    /\ SetMainState(ApplyFilter([MainState EXCEPT !.m.op = "apply_filter"], df))
    /\ UNCHANGED <<csv_files, mseed_file, files, csv_path, data_dir, df, ret,
                   validation_window>>

\* filter_files(search_text) for a search text of at most one character:
\* clearing a filled combo box emits currentTextChanged(''), filling it
\* emits the text of its first entry, and load_file is then called on it again
FilterFilesStep ==
    /\ \E search_text \in SeqsUpTo({"0"}, 1) :
        LET walk == files[data_dir]
            Shown(f) == search_text = <<>> \/ InList(search_text[1], PyStr(f))
            filtered_files == SelectSeq(GetFileList(walk), Shown)
            b0 == [MainState EXCEPT !.m.op = "filter_files"]
            cleared == IF b0.m.file_combo = <<>> THEN b0
                       ELSE LoadFile(b0, <<>>, walk, mseed_file, df)
            filled == [cleared EXCEPT
                          !.m.file_combo = filtered_files,
                          !.m.current_text = IF filtered_files = <<>> THEN None
                                             ELSE Some(filtered_files[1])]
        IN SetMainState(
              IF filtered_files = <<>> THEN filled
              ELSE LoadFile(LoadFile(filled, PyStr(filtered_files[1]), walk,
                                     mseed_file, df),
                            PyStr(filtered_files[1]), walk, mseed_file, df))
    /\ UNCHANGED <<csv_files, mseed_file, files, csv_path, data_dir, df, ret,
                   validation_window>>

\* select_csv_file of the main window with a chosen file: a successful load
\* reloads the current file
MainSelectCsvFileStep ==
    /\ \E file_path \in CsvPaths :
        LET r == LoadCsv(csv_path, Some(file_path), OnDisk(csv_files, Some(file_path)))
            b0 == [MainState EXCEPT !.m.op = "select_csv_file"]
        IN /\ csv_path' = r.csv_path
           /\ df' = r.df
           /\ SetMainState(
                 IF ~r.val[1] THEN [b0 EXCEPT !.m.status = r.val[2]]
                 ELSE IF b0.id = None
                 THEN [b0 EXCEPT !.m.status = "CSV file loaded successfully"]
                 ELSE LoadFile(b0, PyStr(b0.id[1]), files[data_dir], mseed_file, r.df))
    /\ UNCHANGED <<csv_files, mseed_file, files, data_dir, ret, validation_window>>

\* a file of the data directory is deleted outside the program
RemoveFileStep ==
    /\ \E i \in 1..Len(files[data_dir]) :
          files' = [files EXCEPT ![data_dir] =
                       SubSeq(@, 1, i - 1) \o SubSeq(@, i + 1, Len(@))]
    /\ UNCHANGED <<csv_files, mseed_file, csv_path, data_dir, df, current_file_id,
                   current_data, ret, uiVars>>

NextMain ==
    \/ SelectFileStep
    \/ ApplyFilterStep
    \/ FilterFilesStep
    \/ MainSelectCsvFileStep
    \/ RemoveFileStep

SpecMain == InitMain /\ [][NextMain]_vars

\* the records load_mseed gives for the files named after an ID
TracesOfId(id) ==
    {LoadMseed(mseed_file[name]).val[1] :
        name \in {n \in BatchNames : /\ FileIdOfName(n) = Some(id)
                                     /\ LoadMseed(mseed_file[n]).exc = "None"}}

\* C19: current_data is None or the trace of the file current_file_id names,
\* so what apply_filter plots is the trace of the file whose label it looks up
C19_TraceBelongsToCurrentFile ==
    /\ current_data # None =>
          /\ current_file_id # None
          /\ current_data[1] \in TracesOfId(current_file_id[1])
    /\ (main_window.op = "apply_filter" /\ plot_widget.op = "plot_data") =>
          \E t \in TracesOfId(plot_widget.args[1].file_id) :
              plot_widget.args[1].original_data = t.data_normalized


----------------------------------------------------------------------------
(* bandpass_filter and validate_filter_params as called functions *)

MaxFilterOrder == 2   \* highest filter order passed to the filter

\* signals: empty, one sample, and one sample short of and just past the
\* padding of the highest order
FilterSignals ==
    {[i \in 1..n |-> i % 2] :
        n \in {0, 1, 3 * (2 * MaxFilterOrder + 1), 3 * (2 * MaxFilterOrder + 1) + 1}}

\* sampling frequencies in hertz, cutoffs in tenths of a hertz: invalid ones,
\* the defaults, pairs close to 0 and pairs close to the Nyquist frequency
FilterRates == {-1, 0, 100, 1000}
FilterCutoffs == {-1, 0, 1, 2, LowCutDefault, HighCutDefault, 4960, 4980, 5000}

FilterArgs == [signal_data : FilterSignals, fs : FilterRates,
               lowcut : FilterCutoffs, highcut : FilterCutoffs,
               order : 0..MaxFilterOrder]

InitFilter ==
    /\ UiIdle
    /\ csv_files = [p \in CsvPaths |-> None]
    /\ mseed_file = NoStream
    /\ files = <<>>
    /\ csv_path = None
    /\ data_dir = "cwd"
    /\ df = EmptyFrame
    /\ current_file_id = IntId(0)
    /\ current_data = None
    /\ ret \in {[op |-> "__init__", args |-> a, out |-> None] : a \in FilterArgs}

BandpassFilterStep ==
    /\ ret.op = "__init__"
    /\ ret' = [ret EXCEPT !.op = "bandpass_filter",
                          !.out = Some(BandpassFilter(ret.args.signal_data, ret.args.fs,
                                                      ret.args.lowcut, ret.args.highcut,
                                                      ret.args.order))]
    /\ UNCHANGED <<csv_files, mseed_file, files, csv_path, data_dir, df,
                   current_file_id, current_data, uiVars>>

ValidateFilterParamsStep ==
    /\ ret.op = "__init__"
    /\ ret' = [ret EXCEPT !.op = "validate_filter_params",
                          !.out = Some(ValidateFilterParams(ret.args.fs, ret.args.lowcut,
                                                            ret.args.highcut,
                                                            ret.args.order))]
    /\ UNCHANGED <<csv_files, mseed_file, files, csv_path, data_dir, df,
                   current_file_id, current_data, uiVars>>

NextFilter == BandpassFilterStep \/ ValidateFilterParamsStep

SpecFilter == InitFilter /\ [][NextFilter]_vars

Filtered == ret.op = "bandpass_filter"
ParamsValidated == ret.op = "validate_filter_params"

\* fs > 0, order >= 1 and 0 < lowcut < highcut < fs / 2
ValidParams(a) ==
    /\ a.fs > 0
    /\ a.order >= 1
    /\ 0 < a.lowcut
    /\ a.lowcut < a.highcut
    /\ 2 * a.highcut < 10 * a.fs

\* C21: whenever bandpass_filter builds the Butterworth filter, fs > 0,
\* order >= 1, 0 < lowcut < highcut and highcut < fs / 2 hold; with
\* parameters violating one of them the call fails and no filter is built
C21_FilterBuiltOnlyWhenValid ==
    Filtered =>
        /\ ret.out[1].built => ValidParams(ret.args)
        /\ ret.out[1].applied => ret.out[1].built
        /\ ~ValidParams(ret.args) => ret.out[1].exc # "None" /\ ~ret.out[1].built

\* a filter built and applied on valid parameters
C21_Witness ==
    /\ Filtered
    /\ ValidParams(ret.args)
    /\ ret.out[1].built
    /\ ret.out[1].applied

\* C22: bandpass_filter raises ValueError for an empty signal and for invalid
\* parameters, and RuntimeError only when building or applying the filter
\* fails
C22_ValueErrorForInvalidParams ==
    Filtered =>
        /\ (ret.args.signal_data = <<>> \/ ~ValidParams(ret.args)) =>
              ret.out[1].exc = "ValueError"
        /\ ret.out[1].exc = "RuntimeError" => ret.out[1].built

\* C25: validate_filter_params returns the normalized cutoffs for every input
\* with fs > 0, order >= 1 and 0 < lowcut < highcut < fs / 2, and raises
\* ValueError for every other input
C25_AcceptsExactlyValidParams ==
    ParamsValidated =>
        /\ ValidParams(ret.args) => ret.out[1].exc = "None"
        /\ ~ValidParams(ret.args) => ret.out[1].exc = "ValueError"


----------------------------------------------------------------------------
(* The batch run under fair timers *)

\* the working directory is empty or holds file 1, or files 1 and 10; the
\* other directory is empty or holds file 10
RunDirectories ==
    {[d \in DataDirs |-> IF d = "cwd" THEN a ELSE b] :
        a \in {<<>>, << <<"1", ".mseed">> >>,
               << <<"1", ".mseed">>, <<"1", "0", ".mseed">> >>},
        b \in {<<>>, << <<"1", "0", ".mseed">> >>}}

\* the window is opened on the two-row a.csv, and every file decodes
InitRun ==
    /\ InitBatch
    /\ files \in RunDirectories
    /\ "archivo" \in csv_files["a.csv"][1].cols
    /\ \A name \in BatchNames : mseed_file[name] # NoStream

\* Qt's event loop delivers every single-shot timer that is pending
SpecRun == InitRun /\ [][NextBatch]_vars /\ WF_vars(AnalyzeNextFileStep)

\* finish_analysis went through to its last statement
Completed ==
    /\ Finished
    /\ Window.analyzed_files = Len(Window.file_list)
    /\ Window.analyze_button
    /\ Window.export_buttons
    /\ Window.summary_label # None
    /\ Window.exc = "None"

\* C23: every run started by start_analysis eventually completes, for every
\* file list: finish_analysis is reached with analyzed_files = len(file_list),
\* the status 'Analysis complete', the buttons enabled again and the summary
\* label set without an error
C23_RunEventuallyCompletes == Running ~> Completed

\* C24: the label table and the data directory are not replaced while a run
\* is in flight, and at most one analyze_next_file callback is pending at any
\* time
C24_RunIsolated ==
    /\ [](Window.pending <= 1)
    /\ [][Running => (df' = df /\ data_dir' = data_dir)]_vars


----------------------------------------------------------------------------
(* get_mseed_path applied to the IDs of get_file_list *)

\* DataLoader(None, data_dir) over a directory of files; get_file_list and
\* get_mseed_path are called on it in any order
GetMseedPathStep ==
    /\ \E id \in IntIds :
          ret' = [op |-> "get_mseed_path", exc |-> "None",
                  val |-> GetMseedPath(files, id), file_id |-> id]
    /\ UNCHANGED <<csv_files, mseed_file, files, csv_path, data_dir, df,
                   current_file_id, current_data>>
    /\ UNCHANGED uiVars

NextPaths == GetFileListStep \/ GetMseedPathStep

RECURSIVE TotalLen(_)
TotalLen(walk) == IF walk = <<>> THEN 0 ELSE Len(Head(walk)) + TotalLen(Tail(walk))

\* the directories whose file names have at most 2 * MaxNameLen tokens together
PathWalks == {walk \in Walks : TotalLen(walk) <= 2 * MaxNameLen}

\* DataLoader(None, data_dir) over such a directory
InitPaths ==
    /\ UiIdle
    /\ csv_files = [p \in CsvPaths |-> None]
    /\ mseed_file = NoStream
    /\ files \in PathWalks
    /\ current_file_id = IntId(0)
    /\ current_data = None
    /\ Constructed(None)

SpecPaths == InitPaths /\ [][NextPaths]_vars

PathReturned == ret.op = "get_mseed_path"
ListedId == InList(ret.file_id, GetFileList(files))
NormalizesTo(file, id) == EndsWithMseed(file) /\ FileIdOfName(file) = Some(id)

\* C26: for every directory content and every ID that get_file_list returns,
\* get_mseed_path(ID) is the path of an existing .mseed file whose name
\* normalizes to that ID, the first such file of the walk and not the legacy
\* fallback path
C26_ListedIdHasExistingPath ==
    (PathReturned /\ ListedId) =>
        \E i \in 1..Len(files) :
            /\ files[i] = ret.val
            /\ NormalizesTo(files[i], ret.file_id)
            /\ \A j \in 1..(i - 1) : ~NormalizesTo(files[j], ret.file_id)

\* the path of a listed ID whose file has neither of the legacy names
C26_Witness ==
    /\ PathReturned
    /\ ListedId
    /\ ret.val # PyStr(ret.file_id) \o <<".mseed">>
    /\ ret.val # <<"0">> \o PyStr(ret.file_id) \o <<".mseed">>


----------------------------------------------------------------------------
(* Properties of load_csv as the only writer of the label table *)

\* get_p_arrival with an int file_id
GetPArrivalIntStep ==
    \E n \in IntIds :
        LET r == GetPArrival(df, IntId(n)) IN
        /\ ret' = [op |-> "get_p_arrival", file_id |-> IntId(n), exc |-> r.exc,
                   val |-> r.val]
        /\ UNCHANGED <<csv_files, mseed_file, files, csv_path, data_dir, df,
                       current_file_id, current_data>>
        /\ UNCHANGED uiVars

NextTable == LoadCsvStep \/ GetPArrivalIntStep

\* the DataLoader under load_csv calls and lookups by number
SpecTable == Init /\ [][NextTable]_vars

\* what is on disk at the path of the last load_csv call
LoadedFile == OnDisk(csv_files, csv_path)
Loadable ==
    /\ LoadedFile # None
    /\ LoadedFile[1].readable
    /\ "lec_p" \in LoadedFile[1].cols
Absent == [exc |-> "None", val |-> None]

\* C27: load_csv replaces the label table wholesale. After a successful load
\* the table holds the rows of the new file and nothing else, a malformed
\* lec_p cell being NaN in its own row only; after a failed load (missing
\* path, unreadable or malformed CSV) the table is empty and get_p_arrival
\* returns None for every file_id; every lookup is a lookup in that table
C27_TableReplacedWholesale ==
    /\ ret.op = "load_csv" => (ret.val[1] <=> Loadable)
    /\ ~Loadable =>
          /\ df = EmptyFrame
          /\ \A id \in FileIds : GetPArrival(df, id) = Absent
    /\ Loadable =>
          /\ df.cols = LoadedFile[1].cols
          /\ Len(df.rows) = Len(LoadedFile[1].rows)
          /\ \A i \in 1..Len(df.rows) :
                LET cell == LoadedFile[1].rows[i].lec_p IN
                /\ "archivo" \in df.cols =>
                      df.rows[i].archivo = LoadedFile[1].rows[i].archivo
                /\ df.rows[i].lec_p.nan <=> ~cell.numeric
                /\ cell.numeric => df.rows[i].lec_p.v = cell.v
    /\ ret.op = "get_p_arrival" =>
          (~Loadable => (ret.exc = "None" /\ ret.val = None))

\* the load of a CSV without the lec_p column failed and left an empty table
\* although the file has rows and the other file has a labelled row
C27_Witness ==
    /\ ret.op = "load_csv"
    /\ ~ret.val[1]
    /\ LoadedFile # None /\ LoadedFile[1].readable
    /\ Len(LoadedFile[1].rows) > 0
    /\ df = EmptyFrame
    /\ \E p \in CsvPaths :
          /\ Some(p) # csv_path
          /\ csv_files[p] # None
          /\ Len(csv_files[p][1].rows) > 0


----------------------------------------------------------------------------
(* MainWindow.show_validation_window *)

\* show_validation_window: MainWindow has a data_loader but no csv_path
\* attribute of its own, so the arguments of the first ValidationWindow(...)
\* call cannot be evaluated; a window that exists is given the data directory
ShowValidationWindow(m, w, directory) ==
    IF w = NoBatch
    THEN [m |-> [m EXCEPT !.op = "show_validation_window",
                          !.exc = "AttributeError"],
          w |-> w]
    ELSE [m |-> [m EXCEPT !.op = "show_validation_window", !.exc = "None"],
          w |-> [op |-> "update_data_directory", data_dir |-> directory]]

\* the Validation button
ShowValidationWindowStep ==
    /\ LET r == ShowValidationWindow(main_window, validation_window, data_dir) IN
       /\ main_window' = r.m
       /\ validation_window' = r.w
    /\ UNCHANGED <<csv_files, mseed_file, files, csv_path, data_dir, df,
                   current_file_id, current_data, ret, plot_widget>>

NextShow == MainSelectCsvFileStep \/ ShowValidationWindowStep

SpecShow == InitMain /\ [][NextShow]_vars

\* C28: in every state of the main window show_validation_window succeeds and
\* yields a ValidationWindow whose loader uses the main window's current CSV
\* path and current data directory
C28_ValidationWindowOpens ==
    main_window.op = "show_validation_window" =>
        /\ main_window.exc = "None"
        /\ validation_window # NoBatch
        /\ validation_window.data_dir = data_dir
        /\ validation_window.csv_path = csv_path


----------------------------------------------------------------------------
(* PWavePredictor.pad_or_trim *)

MaxPadLen == 4          \* samples of a signal given to pad_or_trim
MaxTargetLength == 3    \* target_length of a pad_or_trim call

\* np.signbit
Signbit(x) == x < 0

\* np.where(np.diff(np.signbit(signal)))[0]: the 0-based indices i with a
\* sign change between signal[i] and signal[i+1], ascending
ZeroCrossings(signal) ==
    LET Changes(i) == Signbit(signal[i]) # Signbit(signal[i + 1])
        RECURSIVE From(_)
        From(i) == IF i >= Len(signal) THEN <<>>
                   ELSE IF Changes(i) THEN <<i - 1>> \o From(i + 1)
                   ELSE From(i + 1)
    IN From(1)

\* zero_crossings[np.abs(zero_crossings - target_length).argmin()]: the first
\* of the crossings nearest to target_length
ClosestCrossing(zero_crossings, target_length) ==
    LET Dist(k) == AbsVal(zero_crossings[k] - target_length)
        k0 == CHOOSE k \in 1..Len(zero_crossings) :
                 /\ \A j \in 1..Len(zero_crossings) : Dist(k) <= Dist(j)
                 /\ \A j \in 1..(k - 1) : Dist(j) > Dist(k)
    IN zero_crossings[k0]

\* pad_or_trim(signal, target_length): np.pad in 'edge' mode repeats the last
\* sample and cannot extend an empty array
PadOrTrim(signal, target_length) ==
    IF Len(signal) > target_length
    THEN LET zero_crossings == ZeroCrossings(signal) IN
         IF Len(zero_crossings) > 0
         THEN LET cut_point == Min2(ClosestCrossing(zero_crossings, target_length),
                                    target_length)
              IN [exc |-> "None", val |-> SubSeq(signal, 1, cut_point)]
         ELSE [exc |-> "None", val |-> SubSeq(signal, 1, target_length)]
    ELSE IF Len(signal) < target_length
    THEN IF Len(signal) = 0 THEN [exc |-> "ValueError", val |-> <<>>]
         ELSE [exc |-> "None",
               val |-> signal \o [i \in 1..(target_length - Len(signal)) |->
                                     signal[Len(signal)]]]
    ELSE [exc |-> "None", val |-> signal]

PadSamples == {-1, 0, 1}
PadArgs == [signal : SeqsUpTo(PadSamples, MaxPadLen), target_length : 1..MaxTargetLength]

InitPad ==
    /\ UiIdle
    /\ csv_files = [p \in CsvPaths |-> None]
    /\ mseed_file = NoStream
    /\ files = <<>>
    /\ csv_path = None
    /\ data_dir = "cwd"
    /\ df = EmptyFrame
    /\ current_file_id = IntId(0)
    /\ current_data = None
    /\ ret \in {[op |-> "__init__", args |-> a, out |-> None] : a \in PadArgs}

PadOrTrimStep ==
    /\ ret.op = "__init__"
    /\ ret' = [ret EXCEPT !.op = "pad_or_trim",
                          !.out = Some(PadOrTrim(ret.args.signal, ret.args.target_length))]
    /\ UNCHANGED <<csv_files, mseed_file, files, csv_path, data_dir, df,
                   current_file_id, current_data, uiVars>>

NextPad == PadOrTrimStep

SpecPad == InitPad /\ [][NextPad]_vars

\* C29: pad_or_trim returns a signal of exactly target_length samples for
\* every input, so the processed signal is never longer than the length the
\* assertion of predict allows
C29_PadOrTrimGivesTargetLength ==
    ret.op = "pad_or_trim" =>
        /\ ret.out[1].exc = "None"
        /\ Len(ret.out[1].val) = ret.args.target_length


----------------------------------------------------------------------------
(* LabelValidator beside DataLoader.validate_labels *)

\* LabelValidator(data, p_arrival_time, sampling_rate, start_time).validate():
\* the details of a missing arrival have no 'relative_p_time' entry
LabelValidatorValidate(data, p_arrival_time, sampling_rate, start_time) ==
    LET duration == [num |-> Len(data), den |-> sampling_rate]
        end_time == [num |-> start_time.timestamp * sampling_rate
                                + Len(data) * TicksPerSecond,
                     den |-> sampling_rate]
    IN IF p_arrival_time = None
       THEN [is_valid |-> FALSE,
             error |-> Some("Missing P arrival time"),
             details |-> [signal_start |-> start_time.timestamp,
                          signal_end |-> end_time,
                          duration |-> duration,
                          p_arrival |-> None]]
       ELSE LET relative_p_time == TimeDiff(p_arrival_time[1], start_time)
                is_valid == /\ 0 <= relative_p_time
                            /\ relative_p_time * duration.den
                                  <= duration.num * TicksPerSecond
            IN [is_valid |-> is_valid,
                error |-> IF is_valid THEN None
                          ELSE Some("P arrival time outside signal duration"),
                details |-> [signal_start |-> start_time.timestamp,
                             signal_end |-> end_time,
                             duration |-> duration,
                             p_arrival |-> Some(p_arrival_time[1].timestamp),
                             relative_p_time |-> Some(relative_p_time)]]

\* the trace and the arrival that validate_labels has just judged are given
\* to a LabelValidator
LabelValidatorStep ==
    /\ ret.op = "validate_labels"
    /\ ret.exc = "None"
    /\ ret' = [op |-> "validate", exc |-> "None",
               val |-> Some(LabelValidatorValidate(
                               current_data[1].data,
                               GetPArrival(df, current_file_id).val,
                               current_data[1].sampling_rate,
                               current_data[1].start_time)),
               labels |-> ret.val[1]]
    /\ UNCHANGED <<csv_files, mseed_file, files, csv_path, data_dir, df,
                   current_file_id, current_data>>
    /\ UNCHANGED uiVars

NextAgree == ValidateLabelsStep \/ LabelValidatorStep

SpecAgree == InitValidate /\ [][NextAgree]_vars

\* details.get(key)
DictGet(details, key) == IF key \in DOMAIN details THEN details[key] ELSE None

\* C30: LabelValidator.validate and DataLoader.validate_labels give the same
\* is_valid verdict and the same relative_p_time for every trace and every
\* arrival, present or absent
C30_ValidatorsAgree ==
    ret.op = "validate" =>
        /\ ret.val[1].is_valid = ret.labels.is_valid
        /\ DictGet(ret.val[1].details, "relative_p_time")
              = DictGet(ret.labels.details, "relative_p_time")


====
